---- MODULE Spec2Model ----
(***************************************************************************)
(* A model of make_readme.py: the command-line script that walks a data    *)
(* directory, reads the header of every PSRFITS / filterbank file in it    *)
(* and writes one summary report.                                          *)
(*                                                                         *)
(* Representation.                                                         *)
(*  - A string the program looks into (a file name, a header field) is a   *)
(*    sequence of one-character strings; a string it only compares is a    *)
(*    TLA+ string.                                                         *)
(*  - A directory path is the sequence of its components below "/"; a path *)
(*    argument is [abs |-> BOOLEAN, p |-> components], so that             *)
(*    os.path.join and the kernel's resolution against the working         *)
(*    directory are computed, not assumed.                                 *)
(*  - A size in GB is kept as its exact numerator over 10^9 (bytes), a     *)
(*    frequency in units of 1/2 MHz, an epoch in units of 1/86400 day, so  *)
(*    that the program's divisions are exact on the values explored.       *)
(*  - The content of the data directory is a bag of files: an entry of     *)
(*    count n stands for n files that agree in everything the program      *)
(*    reads (suffix, link flag, size, header).  The list glob returns is   *)
(*    kept run-length encoded, and the scan loop takes one list element    *)
(*    per step.                                                            *)
(*  - The script is started in StartDir with -d given as the absolute path  *)
(*    DataRoot; -l is absent, absolute or relative, -n absent or absolute. *)
(***************************************************************************)
EXTENDS Integers, Sequences, FiniteSets, Bags, TLC

(***************************************************************************)
(* Bounds of the exploration.                                              *)
(***************************************************************************)
\* distinct files placed in a small data directory
MaxFiles == 2
\* consecutive runs of the script with the same command line
MaxRuns == 2

(***************************************************************************)
(* Program constants.                                                      *)
(***************************************************************************)
\* len(available_files) > 10**3
LargeScanThreshold == 1000
\* size = os.path.getsize(data_file) / 10**9
BytesPerGB == 1000000000
\* MJD = STT_IMJD + STT_SMJD / (24*60*60)
SecondsPerDay == 86400

\* '{:.2f}'.format(tot_size): one hundredth of a GB, in bytes
BytesPerHundredth == BytesPerGB \div 100

(***************************************************************************)
(* Strings as sequences of characters.                                     *)
(***************************************************************************)
\* the characters used, in code point order
CodePoints ==
  <<" ", "+", ".", "0", "1", "2", "3", "4", "5", "6", "7", "8", "9",
    "B", "G", "J", "K", "P", "R", "S", "T", "U",
    "a", "b", "c", "f", "h", "i", "l", "n", "o", "r", "s", "t", "x">>

Ord(c) == CHOOSE k \in 1..Len(CodePoints) : CodePoints[k] = c

RECURSIVE StrLess(_, _)
\* Python's < on str: lexicographic by code point, a proper prefix is smaller
StrLess(s, t) ==
  IF t = <<>> THEN FALSE
  ELSE IF s = <<>> THEN TRUE
  ELSE IF Head(s) # Head(t) THEN Ord(Head(s)) < Ord(Head(t))
  ELSE StrLess(Tail(s), Tail(t))

RECURSIVE LStrip(_)
LStrip(s) == IF s # <<>> /\ Head(s) = " " THEN LStrip(Tail(s)) ELSE s

RECURSIVE RStrip(_)
RStrip(s) ==
  IF s # <<>> /\ s[Len(s)] = " " THEN RStrip(SubSeq(s, 1, Len(s) - 1)) ELSE s

\* str.strip()
Strip(s) == LStrip(RStrip(s))

EndsWith(s, suf) ==
  /\ Len(suf) <= Len(s)
  /\ SubSeq(s, Len(s) - Len(suf) + 1, Len(s)) = suf

\* the largest index of character c in s, 0 when there is none (str.rfind + 1)
RFind(s, c) ==
  IF \E k \in 1..Len(s) : s[k] = c
  THEN CHOOSE k \in 1..Len(s) : s[k] = c /\ \A j \in (k + 1)..Len(s) : s[j] # c
  ELSE 0

RECURSIVE Digits(_)
\* the decimal digits of a natural number
Digits(n) ==
  IF n < 10 THEN <<CodePoints[n + 4]>>
  ELSE Digits(n \div 10) \o <<CodePoints[(n % 10) + 4]>>

\* str(freq) of a frequency held in units of 1/2 MHz: "1450.5", "1400.0"
FreqStr(h) == Digits(h \div 2) \o <<".">> \o (IF h % 2 = 1 THEN <<"5">> ELSE <<"0">>)

Abs(x) == IF x < 0 THEN 0 - x ELSE x

(***************************************************************************)
(* Lists.                                                                  *)
(***************************************************************************)
Elems(s) == {s[k] : k \in 1..Len(s)}

NoDup(s) == \A j, k \in 1..Len(s) : s[j] = s[k] => j = k

RECURSIVE InsertSorted(_, _)
InsertSorted(x, s) ==
  IF s = <<>> THEN <<x>>
  ELSE IF StrLess(Head(s), x) THEN <<Head(s)>> \o InsertSorted(x, Tail(s))
  ELSE <<x>> \o s

RECURSIVE Sorted(_)
\* sorted(list of str)
Sorted(s) == IF s = <<>> THEN <<>> ELSE InsertSorted(Head(s), Sorted(Tail(s)))

\* the membership test left out
AppendAlways(lst, v) == Append(lst, v)

\* if v not in lst: lst.append(v)
AppendIfNew(lst, v) == IF v \in Elems(lst) THEN lst ELSE Append(lst, v)

\* [str(freq) for freq in center_freqs]
StringCenterFreqs(freqs) == [k \in 1..Len(freqs) |-> FreqStr(freqs[k])]

\* every ordering of a finite set, as sequences
Orderings(S) ==
  {s \in [1..Cardinality(S) -> S] : \A j, k \in 1..Cardinality(S) : s[j] = s[k] => j = k}

(***************************************************************************)
(* Paths.                                                                  *)
(***************************************************************************)
AbsPath(p) == [abs |-> TRUE, p |-> p]
RelPath(p) == [abs |-> FALSE, p |-> p]

\* os.path.join(a, b): an absolute b discards a
Join(a, b) == IF b.abs THEN b ELSE [abs |-> a.abs, p |-> a.p \o b.p]

\* the directory or file a path names when the working directory is cwd
Resolve(cwd, a) == IF a.abs THEN a.p ELSE cwd \o a.p

\* the directory the script is started in
StartDir == <<"w">>
\* the directory given with -d
DataRoot == <<"d">>
ReadmeName == "README.txt"

\* the directories that may exist besides StartDir
OptionalDirs == {DataRoot, StartDir \o <<"out">>, DataRoot \o <<"out">>}
\* the places a report may be written at
OutPaths == {StartDir \o <<ReadmeName>>,
             StartDir \o <<"out", ReadmeName>>,
             DataRoot \o <<"out", ReadmeName>>}

Parent(path) == SubSeq(path, 1, Len(path) - 1)

Absent == [kind |-> "none"]
Old == [kind |-> "old"]

(***************************************************************************)
(* The files a data directory may hold.                                    *)
(***************************************************************************)
ExtFits == <<".", "f", "i", "t", "s">>
ExtSf == <<".", "s", "f">>
ExtRf == <<".", "r", "f">>
ExtFil == <<".", "f", "i", "l">>

\* extensions = ['.fits', '.sf', '.rf', '.fil']
extensions == <<ExtFits, ExtSf, ExtRf, ExtFil>>

PsrfitsHdr(tel, obs, proj, src, mode, imjd, smjd, freq) ==
  [TELESCOP |-> tel, OBSERVER |-> obs, PROJID |-> proj, SRC_NAME |-> src,
   OBS_MODE |-> mode, STT_IMJD |-> imjd, STT_SMJD |-> smjd, OBSFREQ |-> freq]

FilHdr(tel, src, tstart, fch1, foff, nchans) ==
  [telescope |-> tel, source |-> src, tstart |-> tstart,
   fch1 |-> fch1, foff |-> foff, nchans |-> nchans]

\* sub: the directories between the data directory and the file; name: the
\* base name; link: a symbolic link (size, fmt and hdr are then the target's);
\* fmt: what the content really is; hdr: the header a matching reader returns
DataFile(sub, name, link, size, fmt, hdr) ==
  [sub |-> sub, name |-> name, link |-> link, size |-> size, fmt |-> fmt, hdr |-> hdr]

GBT == <<"G", "B", "T">>
PKS == <<"P", "K", "S">>

FileA ==
  DataFile(<<>>, <<"a">> \o ExtFits, FALSE, 4000000, "psrfits",
           PsrfitsHdr(GBT \o <<" ">>, <<"S">>, <<"P", "1">>, <<"J", "0">>,
                      <<"S", "R">>, 20000, 0, 2800))
FileB ==
  DataFile(<< <<"s", ".", "f", "i", "l">> >>, <<"b">> \o ExtFil, FALSE, 1232000000, "fil",
           FilHdr(GBT, <<"J", "0", " ">>, 20000 * SecondsPerDay, 3000, -2, 100))
FileC ==
  DataFile(<<>>, <<"c">> \o ExtSf, FALSE, 8000000, "psrfits",
           PsrfitsHdr(<<" ">> \o PKS, <<"S">>, <<"P", "2">>, <<"J", "1">>,
                      <<"S", "R">>, 20001, 43200, 2901))
FileR ==
  DataFile(<<>>, <<"r", ".", "a">> \o ExtRf, FALSE, 6000000, "psrfits",
           PsrfitsHdr(PKS, <<"K">>, <<"P", "1">>, <<"J", "0">>,
                      <<"P", "S", "R">>, 20000, 0, 2800))
\* a symbolic link to a valid PSRFITS file
FileL ==
  DataFile(<<>>, <<"l">> \o ExtFits, TRUE, 4000000, "psrfits",
           PsrfitsHdr(<<"B">>, <<"B">>, <<"B">>, <<"B">>, <<"B">>, 20002, 0, 2802))
\* a FITS file that is not PSRFITS: pdat cannot read it
FileX ==
  DataFile(<<>>, <<"x">> \o ExtRf, FALSE, 2000000, "other",
           PsrfitsHdr(<<"U">>, <<"U">>, <<"U">>, <<"U">>, <<"U">>, 0, 0, 0))
\* a hidden file whose whole name is ".fits"
FileH ==
  DataFile(<<>>, ExtFits, FALSE, 2000000, "psrfits",
           PsrfitsHdr(<<"T">>, <<"T">>, <<"T">>, <<"T">>, <<"T">>, 20003, 0, 2804))
\* a filterbank file below a hidden directory
FileHS ==
  DataFile(<< <<".", "h">> >>, <<"h">> \o ExtFil, FALSE, 2000000, "fil",
           FilHdr(<<"R">>, <<"R">>, 20004 * SecondsPerDay, 2000, 2, 3))
\* a file of another kind, below a directory whose name has a dot
FileT ==
  DataFile(<< <<"s", ".", "f", "i", "l">> >>, <<"n">> \o ExtFits \o <<".", "t", "x", "t">>, FALSE, 2000000, "other",
           PsrfitsHdr(<<"U">>, <<"U">>, <<"U">>, <<"U">>, <<"U">>, 0, 0, 0))
\* one of many like files of a large directory
FileO ==
  DataFile(<<>>, <<"o">> \o ExtFits, FALSE, 2000000, "psrfits",
           PsrfitsHdr(GBT, <<"S">>, <<"P", "1">>, <<"J", "0">>,
                      <<"S", "R">>, 20000, 0, 2800))

FilePool == {FileA, FileB, FileC, FileR, FileL, FileX, FileH, FileHS, FileT}

\* the small data directories: at most MaxFiles files of the pool
SmallTrees == {SetToBag(S) : S \in {T \in SUBSET FilePool : Cardinality(T) <= MaxFiles}}

\* the large ones: about LargeScanThreshold like files, with or without a link
LargeTrees ==
  {(FileO :> n) (+) SetToBag(X) :
     n \in (LargeScanThreshold - 1)..(LargeScanThreshold + 1), X \in SUBSET {FileL}}

(***************************************************************************)
(* glob, os.path.splitext, os.path.islink.                                 *)
(***************************************************************************)
\* glob._ishidden
IsHidden(name) == name # <<>> /\ Head(name) = "."

\* the same with hidden names included
GlobMatchesHidden(f, e) == EndsWith(f.name, e)

\* fnmatch of one name against '*' + e, as glob applies it (hidden names skipped)
GlobMatches(f, e) ==
  /\ ~IsHidden(f.name)
  /\ \A k \in 1..Len(f.sub) : ~IsHidden(f.sub[k])
  /\ EndsWith(f.name, e)

\* glob.glob(root + '/**/*' + e, recursive=True) on a directory holding bag t,
\* each match with the number of files it stands for
Glob(root, t, e) ==
  IF root = DataRoot
  THEN {[f |-> f, n |-> CopiesIn(f, t)] : f \in {g \in BagToSet(t) : GlobMatches(g, e)}}
  ELSE {}

\* the lists the four globs may add up to: the extensions in order, the matches
\* of one extension in the directory's order, which is any
AvailableLists(root, t) ==
  {o1 \o o2 \o o3 \o o4 :
     o1 \in Orderings(Glob(root, t, extensions[1])),
     o2 \in Orderings(Glob(root, t, extensions[2])),
     o3 \in Orderings(Glob(root, t, extensions[3])),
     o4 \in Orderings(Glob(root, t, extensions[4]))}

RECURSIVE ListLen(_)
\* len(available_files)
ListLen(runs) == IF runs = <<>> THEN 0 ELSE Head(runs).n + ListLen(Tail(runs))

RECURSIVE ListAt(_, _)
\* available_files[k - 1]
ListAt(runs, k) ==
  IF k <= Head(runs).n THEN Head(runs).f ELSE ListAt(Tail(runs), k - Head(runs).n)

RECURSIVE SubChars(_)
\* the directories between the data directory and a file, each with its "/"
SubChars(sub) == IF sub = <<>> THEN <<>> ELSE Head(sub) \o <<"/">> \o SubChars(Tail(sub))

\* the path glob returns for a file: abspath(data_directory) + '/' + ...
PathChars(f) == <<"/">> \o DataRoot \o <<"/">> \o SubChars(f.sub) \o f.name

\* os.path.splitext(data_file)[1]: from the last dot, when it lies after the
\* last "/" and some character between the two is not a dot
SplitextExt(f) ==
  LET p == PathChars(f)
      sepIndex == RFind(p, "/")
      dotIndex == RFind(p, ".")
  IN IF dotIndex > sepIndex /\ \E k \in (sepIndex + 1)..(dotIndex - 1) : p[k] # "."
     THEN SubSeq(p, dotIndex, Len(p))
     ELSE <<>>

\* a test that follows the link to its target
IsLinkFollowed(f) == FALSE

\* os.path.islink(af)
IsLink(f) == f.link

(***************************************************************************)
(* parse_data.                                                             *)
(***************************************************************************)
IsPsrfitsExt(ext) == ext \in {ExtFits, ExtSf, ExtRf}
IsFilExt(ext) == ext \in {ExtFil}

\* the width taken as a magnitude, fch1 as the top of the band
FilCenterFreqUnsigned(h) == h.fch1 - (Abs(h.foff) * (h.nchans - 1)) \div 2

\* center_freq = header.fch1 + header.foff*(header.nchans - 1)/2
FilCenterFreq(h) == h.fch1 + (h.foff * (h.nchans - 1)) \div 2

\* MJD = header['STT_IMJD'] + header['STT_SMJD'] / (24*60*60)
PsrfitsMJD(h) == h.STT_IMJD * SecondsPerDay + h.STT_SMJD

\* a reader failure swallowed
ParseNeverRaises(f) == FALSE

\* parse_data does not return: the reader raises on a file that is not of the
\* format its extension claims, and the return statement raises when neither
\* branch has bound the fields
ParseRaises(f) ==
  LET ext == SplitextExt(f) IN
    IF IsPsrfitsExt(ext) THEN f.fmt # "psrfits"
    ELSE IF IsFilExt(ext) THEN f.fmt # "fil"
    ELSE TRUE

\* what parse_data returns
ParseData(f) ==
  LET ext == SplitextExt(f) IN
    IF IsPsrfitsExt(ext)
    THEN [ext |-> ext, size |-> f.size,
          telescope |-> Strip(f.hdr.TELESCOP), observer |-> Strip(f.hdr.OBSERVER),
          project_id |-> Strip(f.hdr.PROJID), source |-> Strip(f.hdr.SRC_NAME),
          mode |-> Strip(f.hdr.OBS_MODE), MJD |-> PsrfitsMJD(f.hdr),
          center_freq |-> f.hdr.OBSFREQ]
    ELSE [ext |-> ext, size |-> f.size,
          telescope |-> Strip(f.hdr.telescope), observer |-> <<"U">>,
          project_id |-> <<"U">>, source |-> Strip(f.hdr.source),
          mode |-> <<"U">>, MJD |-> f.hdr.tstart,
          center_freq |-> FilCenterFreq(f.hdr)]

\* the size cut to two decimals, not rounded
Format2fTruncated(bytes) == bytes \div BytesPerHundredth

\* '{:.2f}'.format(tot_size), in hundredths of a GB (the sizes explored never
\* sum to a tie between two hundredths)
Format2f(bytes) == (bytes + BytesPerHundredth \div 2) \div BytesPerHundredth


(***************************************************************************)
(* The state.                                                              *)
(***************************************************************************)
VARIABLES
  argv,              \* the command line: each option absent (<<>>) or <<value>>
  dirs,              \* the directories that exist
  tree,              \* the bag of files below DataRoot
  outFiles,          \* what each place of OutPaths holds
  run,               \* the number of the run under way
  clock,             \* the number of time.time() readings taken so far
  startFiles,        \* outFiles when the run under way started
  pc,                \* where the script is
  exitStatus,        \* <<>> while running, <<status>> once the process has ended
  printed,           \* the kinds of message printed so far
  cwd,               \* the working directory
  data_directory, output_name, output_directory, owner, generator, verbose,
  start_timestamp, end_timestamp,
  available_files,   \* as runs [f |-> file, n |-> count]
  globbed,           \* glob has been called
  prompted,          \* input() has been called
  result,            \* the answer given to input()
  i,                 \* the elements of available_files the loop has taken
  read,              \* the files handed to parse_data
  n_files, tot_size, exts, telescopes, observers, project_ids, sources, modes,
  MJDs, center_freqs,
  opened             \* the place opened for writing, once it is

world == <<argv, dirs, tree>>
config == <<data_directory, output_name, output_directory, owner, generator, verbose>>
stamps == <<start_timestamp, end_timestamp>>
summary == <<n_files, tot_size, exts, telescopes, observers, project_ids, sources,
             modes, MJDs, center_freqs>>
vars == <<world, outFiles, run, clock, startFiles, pc, exitStatus, printed, cwd,
          config, stamps, available_files, globbed, prompted, result, i, read,
          summary, opened>>

\* os.path.isdir
IsDir(path) == path \in dirs

\* os.path.exists
Exists(path) == path \in dirs \/ (path \in OutPaths /\ outFiles[path] # Absent)

\* bool(s), the type argparse applies to the value of -v
ArgparseBool(s) == s # ""

\* args.v: None (<<>>) or the converted value
ArgsV == IF argv.v = <<>> THEN <<>> ELSE <<ArgparseBool(argv.v[1])>>

\* if args.x: a given, non-empty value
Given(a) == a # <<>>

\* the answers a user may type at the prompt
Responses == {"Y", "y", "N", ""}

\* the values of -v explored
VerboseArgs == {<<>>, <<"">>, <<"True">>, <<"False">>, <<"banana">>}

\* the values of -l explored
LocationArgs == {<<>>, <<AbsPath(StartDir \o <<"out">>)>>, <<RelPath(<<"out">>)>>}

\* the values of -n explored
NameArgs == {<<>>, <<AbsPath(StartDir \o <<"out", ReadmeName>>)>>}

\* the state of the script's own variables when the interpreter starts it
FreshProcess ==
  /\ pc = "resolve"
  /\ exitStatus = <<>>
  /\ printed = {}
  /\ cwd = StartDir
  /\ data_directory = <<>>
  /\ output_name = <<>>
  /\ output_directory = <<>>
  /\ owner = ""
  /\ generator = ""
  /\ verbose = FALSE
  /\ start_timestamp = 0
  /\ end_timestamp = 0
  /\ available_files = <<>>
  /\ globbed = FALSE
  /\ prompted = FALSE
  /\ result = <<>>
  /\ i = 0
  /\ read = {}
  /\ n_files = 0
  /\ tot_size = 0
  /\ exts = <<>>
  /\ telescopes = <<>>
  /\ observers = <<>>
  /\ project_ids = <<>>
  /\ sources = <<>>
  /\ modes = <<>>
  /\ MJDs = <<>>
  /\ center_freqs = <<>>
  /\ opened = <<>>

\* the same for the process the next run starts
FreshProcessNext ==
  /\ pc' = "resolve"
  /\ exitStatus' = <<>>
  /\ printed' = {}
  /\ cwd' = StartDir
  /\ data_directory' = <<>>
  /\ output_name' = <<>>
  /\ output_directory' = <<>>
  /\ owner' = ""
  /\ generator' = ""
  /\ verbose' = FALSE
  /\ start_timestamp' = 0
  /\ end_timestamp' = 0
  /\ available_files' = <<>>
  /\ globbed' = FALSE
  /\ prompted' = FALSE
  /\ result' = <<>>
  /\ i' = 0
  /\ read' = {}
  /\ n_files' = 0
  /\ tot_size' = 0
  /\ exts' = <<>>
  /\ telescopes' = <<>>
  /\ observers' = <<>>
  /\ project_ids' = <<>>
  /\ sources' = <<>>
  /\ modes' = <<>>
  /\ MJDs' = <<>>
  /\ center_freqs' = <<>>
  /\ opened' = <<>>

\* a file exists only in a directory that exists
WellFormed(ds, fs) == \A q \in OutPaths : fs[q] # Absent => Parent(q) \in ds

\* a small data directory, under every command line and file system explored
InitSmall ==
  /\ argv \in [d : {<<AbsPath(DataRoot)>>}, n : NameArgs, l : LocationArgs,
               o : {<<>>}, g : {<<>>}, v : VerboseArgs]
  /\ dirs \in {{StartDir} \cup X : X \in SUBSET OptionalDirs}
  /\ \A q \in dirs : Len(q) > 1 => Parent(q) \in dirs
  /\ tree \in SmallTrees
  /\ DataRoot \notin dirs => tree = EmptyBag
  /\ outFiles \in [OutPaths -> {Absent, Old}]
  /\ WellFormed(dirs, outFiles)

\* a large data directory, under one command line and an empty output directory
InitLarge ==
  /\ argv = [d |-> <<AbsPath(DataRoot)>>, n |-> <<>>,
             l |-> <<AbsPath(StartDir \o <<"out">>)>>, o |-> <<>>, g |-> <<>>, v |-> <<>>]
  /\ dirs = {StartDir} \cup OptionalDirs
  /\ tree \in LargeTrees
  /\ outFiles = [q \in OutPaths |-> Absent]

Init ==
  /\ InitSmall \/ InitLarge
  /\ run = 1
  /\ clock = 0
  /\ startFiles = outFiles
  /\ FreshProcess

(***************************************************************************)
(* The script, one action per section.                                     *)
(***************************************************************************)
\* sys.exit(): the process ends with status 0
SysExit(msgs) ==
  /\ pc' = "exited"
  /\ exitStatus' = <<0>>
  /\ printed' = printed \cup msgs

\* an exception nobody catches: traceback, status 1
Uncaught ==
  /\ pc' = "raised"
  /\ exitStatus' = <<1>>
  /\ printed' = printed \cup {"traceback"}

\* the check of verbose after args.v was found true
VerboseInvalid(v) == v \notin {TRUE, FALSE}

\* lines 69-96
ResolveConfig ==
  /\ pc = "resolve"
  /\ data_directory' = (IF Given(argv.d) THEN argv.d ELSE <<AbsPath(cwd)>>)
  /\ output_name' = (IF Given(argv.n) THEN argv.n ELSE <<RelPath(<<ReadmeName>>)>>)
  /\ output_directory' = (IF Given(argv.l) THEN argv.l ELSE <<AbsPath(cwd)>>)
  /\ owner' = (IF Given(argv.o) THEN argv.o[1] ELSE "Unknown")
  /\ generator' = (IF Given(argv.g) THEN argv.g[1] ELSE "user")
  /\ IF ArgsV # <<>> /\ ArgsV[1]
     THEN /\ verbose' = ArgsV[1]
          /\ IF VerboseInvalid(ArgsV[1])
             THEN SysExit({"-v must be True or False!"})
             ELSE pc' = "check" /\ UNCHANGED <<exitStatus, printed>>
     ELSE /\ verbose' = FALSE
          /\ pc' = "check"
          /\ UNCHANGED <<exitStatus, printed>>
  /\ UNCHANGED <<world, outFiles, run, clock, startFiles, cwd, stamps, available_files,
                 globbed, prompted, result, i, read, summary, opened>>

\* os.path.isdir(data_directory) == False
DataDirMissing == ~IsDir(Resolve(cwd, data_directory[1]))

\* os.path.isdir(output_directory) == False
OutputDirMissing == ~IsDir(Resolve(cwd, output_directory[1]))

\* the check of the output file left out
OutputFileNeverChecked == FALSE

\* os.path.exists(os.path.join(output_directory, output_name)) == True
OutputFileExists == Exists(Resolve(cwd, Join(output_directory[1], output_name[1])))

\* lines 154-162
CheckPreconditions ==
  /\ pc = "check"
  /\ IF DataDirMissing THEN SysExit({"Data directory does not exist!"})
     ELSE IF OutputDirMissing THEN SysExit({"Output directory does not exist!"})
     ELSE IF OutputFileExists THEN SysExit({"There is already a file!"})
     ELSE pc' = "enumerate" /\ UNCHANGED <<exitStatus, printed>>
  /\ UNCHANGED <<world, outFiles, run, clock, startFiles, cwd, config, stamps,
                 available_files, globbed, prompted, result, i, read, summary, opened>>

\* lines 167-179: the start time, os.chdir(data_directory), the four globs
Enumerate ==
  /\ pc = "enumerate"
  /\ start_timestamp' = clock
  /\ clock' = clock + 1
  /\ IF IsDir(Resolve(cwd, data_directory[1]))
     THEN /\ cwd' = Resolve(cwd, data_directory[1])
          \* os.path.abspath(data_directory), taken after the chdir
          /\ available_files' \in AvailableLists(Resolve(cwd', data_directory[1]), tree)
          /\ globbed' = TRUE
          /\ pc' = "confirm"
          /\ UNCHANGED <<exitStatus, printed>>
     ELSE /\ Uncaught
          /\ UNCHANGED <<cwd, available_files, globbed>>
  /\ UNCHANGED <<world, outFiles, run, startFiles, config, end_timestamp, prompted,
                 result, i, read, summary, opened>>

\* len(available_files) > 10**3
IsLargeScan(files) == ListLen(files) > LargeScanThreshold

\* result != 'Y'
Declined(r) == r # "Y"

\* lines 185-203: the confirmation of a large scan, then the empty accumulators
ConfirmLargeScan ==
  /\ pc = "confirm"
  /\ IF IsLargeScan(available_files)
     THEN \E r \in Responses :
            /\ prompted' = TRUE
            /\ result' = <<r>>
            /\ IF Declined(r)
               THEN SysExit({"Are you sure you want to proceed?"})
               ELSE /\ pc' = "scan"
                    /\ printed' = printed \cup {"Are you sure you want to proceed?"}
                    /\ UNCHANGED exitStatus
     ELSE /\ pc' = "scan"
          /\ UNCHANGED <<prompted, result, exitStatus, printed>>
  /\ UNCHANGED <<world, outFiles, run, clock, startFiles, cwd, config, stamps,
                 available_files, globbed, i, read, summary, opened>>

\* lines 213-230: one record folded into the summary
Fold(r) ==
  /\ n_files' = n_files + 1
  /\ tot_size' = tot_size + r.size
  /\ exts' = AppendIfNew(exts, r.ext)
  /\ telescopes' = AppendIfNew(telescopes, r.telescope)
  /\ observers' = AppendIfNew(observers, r.observer)
  /\ project_ids' = AppendIfNew(project_ids, r.project_id)
  /\ sources' = AppendIfNew(sources, r.source)
  /\ modes' = AppendIfNew(modes, r.mode)
  /\ MJDs' = AppendIfNew(MJDs, r.MJD)
  /\ center_freqs' = AppendIfNew(center_freqs, r.center_freq)

\* lines 208-233: one iteration of the loop over available_files
ScanStep ==
  /\ pc = "scan"
  /\ i < ListLen(available_files)
  /\ i' = i + 1
  /\ LET af == ListAt(available_files, i + 1) IN
       IF ~IsLink(af)
       THEN /\ read' = read \cup {af}
            /\ IF ParseRaises(af)
               THEN /\ pc' = "raised"
                    /\ exitStatus' = <<1>>
                    /\ printed' = printed \cup {"traceback"}
                                    \cup (IF verbose THEN {"Reading header"} ELSE {})
                    /\ UNCHANGED summary
               ELSE /\ Fold(ParseData(af))
                    /\ printed' = printed \cup (IF verbose THEN {"Reading header"} ELSE {})
                    /\ UNCHANGED <<pc, exitStatus>>
       ELSE /\ printed' = printed \cup (IF verbose THEN {"is a symlink"} ELSE {})
            /\ UNCHANGED <<pc, exitStatus, read, summary>>
  /\ UNCHANGED <<world, outFiles, run, clock, startFiles, cwd, config, stamps,
                 available_files, globbed, prompted, result, opened>>

\* lines 253-267: the text written
Report ==
  [kind |-> "report",
   data_directory |-> data_directory[1], owner |-> owner, generator |-> generator,
   started |-> start_timestamp, completed |-> clock,
   n_files |-> n_files, size |-> Format2f(tot_size),
   types |-> Sorted(exts), telescopes |-> Sorted(telescopes),
   observers |-> Sorted(observers), project_ids |-> Sorted(project_ids),
   sources |-> Sorted(sources), modes |-> Sorted(modes),
   center_freqs |-> Sorted(StringCenterFreqs(center_freqs))]

\* lines 237-268, once the loop has ended: the end time, os.chdir(output_directory),
\* open(output_name, 'w') and the writes
WriteReport ==
  /\ pc = "scan"
  /\ i = ListLen(available_files)
  /\ end_timestamp' = clock
  /\ clock' = clock + 1
  /\ IF ~IsDir(Resolve(cwd, output_directory[1]))
     THEN \* os.chdir raises FileNotFoundError
          /\ Uncaught
          /\ UNCHANGED <<cwd, opened, outFiles>>
     ELSE /\ cwd' = Resolve(cwd, output_directory[1])
          /\ IF ~IsDir(Parent(Resolve(cwd', output_name[1])))
             THEN \* open raises FileNotFoundError
                  /\ Uncaught
                  /\ UNCHANGED <<opened, outFiles>>
             ELSE /\ opened' = <<Resolve(cwd', output_name[1])>>
                  /\ outFiles' = [outFiles EXCEPT ![opened'[1]] = Report]
                  /\ pc' = "done"
                  /\ exitStatus' = <<0>>
                  /\ UNCHANGED printed
  /\ UNCHANGED <<world, run, startFiles, config, start_timestamp, available_files,
                 globbed, prompted, result, i, read, summary>>

\* the same command line is run again, on the file system the run before left
Rerun ==
  /\ pc \in {"done", "exited", "raised"}
  /\ run < MaxRuns
  /\ run' = run + 1
  /\ startFiles' = outFiles
  /\ FreshProcessNext
  /\ UNCHANGED <<world, outFiles, clock>>

Next ==
  \/ ResolveConfig
  \/ CheckPreconditions
  \/ Enumerate
  \/ ConfirmLargeScan
  \/ ScanStep
  \/ WriteReport
  \/ Rerun

Spec == Init /\ [][Next]_vars


(***************************************************************************)
(* Filterbank headers: a descending band and the ascending band with the   *)
(* same edges, side by side in one data directory.                         *)
(***************************************************************************)
\* channel counts explored: 1..MaxChans, and the 100 of the worked example
MaxChans == 4
FilChannels == (1..MaxChans) \cup {100}
\* first-channel frequencies, in 1/2 MHz (3000 is 1500.0 MHz)
FilFch1s == {2801, 3000, 3200}
\* channel widths, in 1/2 MHz (-2 is -1.0 MHz)
FilFoffs == {-4, -2, 2, 4}

FilFile(name, fch1, foff, nchans) ==
  DataFile(<<>>, name \o ExtFil, FALSE, 2000000, "fil",
           FilHdr(GBT, <<"J", "0">>, 20000 * SecondsPerDay, fch1, foff, nchans))

\* the file with the same band edges and the channels in the other order
Mirror(name, h) == FilFile(name, h.fch1 + h.foff * (h.nchans - 1), 0 - h.foff, h.nchans)

FilTrees ==
  {SetToBag({FilFile(<<"a">>, f, w, n), Mirror(<<"b">>, FilFile(<<"a">>, f, w, n).hdr)}) :
     f \in FilFch1s, w \in FilFoffs, n \in FilChannels}

InitFil ==
  /\ argv = [d |-> <<AbsPath(DataRoot)>>, n |-> <<>>,
             l |-> <<AbsPath(StartDir \o <<"out">>)>>, o |-> <<>>, g |-> <<>>, v |-> <<>>]
  /\ dirs = {StartDir} \cup OptionalDirs
  /\ tree \in FilTrees
  /\ outFiles = [q \in OutPaths |-> Absent]
  /\ run = 1
  /\ clock = 0
  /\ startFiles = outFiles
  /\ FreshProcess

SpecFil == InitFil /\ [][Next]_vars


(***************************************************************************)
(* What the command line and the file system at the start of a run say,    *)
(* read off the inputs alone.                                              *)
(***************************************************************************)
\* the output directory the command line names, seen from the start directory
NamedOutputDir ==
  IF argv.l = <<>> THEN StartDir
  ELSE IF argv.l[1].abs THEN argv.l[1].p ELSE StartDir \o argv.l[1].p

\* the output file the command line names
NamedOutputFile ==
  IF argv.n # <<>> /\ argv.n[1].abs THEN argv.n[1].p ELSE NamedOutputDir \o <<ReadmeName>>

\* the directory the command line names with -d
NamedDataDir == argv.d[1].p

\* one of the three preconditions is violated when the run starts
PreconditionViolated ==
  \/ NamedDataDir \notin dirs
  \/ NamedOutputDir \notin dirs
  \/ startFiles[NamedOutputFile] # Absent

\* the checks have been made
PastChecks == pc \notin {"resolve", "check"}

\* nothing enumerated, nothing read, nothing written
NoSideEffects ==
  /\ ~globbed
  /\ available_files = <<>>
  /\ read = {}
  /\ opened = <<>>
  /\ outFiles = startFiles

\* C1: the place the report is opened for writing at did not exist when the
\* run started; so a second run with the same arguments stops at the check of
\* the existing file and leaves the first run's file as it was.
C1_NeverOverwrites ==
  opened # <<>> => startFiles[opened[1]] = Absent

\* C1, the part that holds: with the output directory absolute or left to its
\* default, or the output name absolute, the place opened is the place
\* checked, and it did not exist.
C1_AbsoluteLocationNeverOverwrites ==
  (opened # <<>> /\ (argv.l = <<>> \/ argv.l[1].abs \/ argv.n # <<>>)) =>
    /\ opened[1] = NamedOutputFile
    /\ startFiles[opened[1]] = Absent

\* C2: when the search directory or the output directory is missing, or the
\* output file exists, the run ends at the checks: nothing is enumerated or
\* read, and no output file is created or changed.
C2_PreconditionsAbortBeforeScan ==
  (PreconditionViolated /\ PastChecks) => (pc = "exited" /\ NoSideEffects)

\* a run stopped by the existing output file, both directories being there
C2_Witness ==
  /\ pc = "exited"
  /\ NamedDataDir \in dirs
  /\ NamedOutputDir \in dirs
  /\ startFiles[NamedOutputFile] = Old
  /\ tree # EmptyBag

\* C3: a value of -v that is neither true nor false ends the run in a usage
\* error that is reported, and no output is produced.
C3_InvalidVerboseIsFatal ==
  (argv.v # <<>> /\ argv.v[1] \notin {"True", "False"} /\ pc # "resolve") =>
    /\ pc = "exited"
    /\ "-v must be True or False!" \in printed
    /\ NoSideEffects

\* C4: the prompt is issued exactly when more than 1000 candidates (symbolic
\* links included) were enumerated; the scan goes on only on the answer "Y",
\* and any other answer ends the run with no file read, no output written and
\* a non-zero exit status.
C4_DeclinedLargeScanAborts ==
  /\ pc \in {"scan", "done", "raised"} => (prompted <=> ListLen(available_files) > 1000)
  /\ pc \in {"scan", "done", "raised"} /\ prompted => result = <<"Y">>
  /\ (prompted /\ result # <<"Y">>) =>
       /\ pc = "exited"
       /\ read = {}
       /\ opened = <<>>
       /\ outFiles = startFiles
       /\ exitStatus # <<0>>

\* C4, the part that holds: the prompt exactly above 1000 candidates, the scan
\* only on "Y", and on any other answer the run ends with nothing read and
\* nothing written.
C4_DeclinedLargeScanStops ==
  /\ pc \in {"scan", "done", "raised"} => (prompted <=> ListLen(available_files) > 1000)
  /\ pc \in {"scan", "done", "raised"} /\ prompted => result = <<"Y">>
  /\ (prompted /\ result # <<"Y">>) =>
       /\ pc = "exited"
       /\ read = {}
       /\ opened = <<>>
       /\ outFiles = startFiles


(***************************************************************************)
(* The enumerated list and the files of it, read off the state.            *)
(***************************************************************************)
\* the files the list names
Candidates == {available_files[k].f : k \in 1..Len(available_files)}

\* the reader of the format a file's name claims can read it
Readable(f) ==
  \/ f.fmt = "psrfits" /\ \E e \in {ExtFits, ExtSf, ExtRf} : EndsWith(f.name, e)
  \/ f.fmt = "fil" /\ EndsWith(f.name, ExtFil)

RECURSIVE PrefixFiles(_, _)
\* the files among the first k elements of a list of runs
PrefixFiles(runs, k) ==
  IF k <= 0 \/ runs = <<>> THEN {}
  ELSE {Head(runs).f} \cup PrefixFiles(Tail(runs), k - Head(runs).n)

RECURSIVE PrefixCount(_, _)
\* how many of the first k elements are not symbolic links
PrefixCount(runs, k) ==
  IF k <= 0 \/ runs = <<>> THEN 0
  ELSE (IF Head(runs).f.link THEN 0
        ELSE (IF k < Head(runs).n THEN k ELSE Head(runs).n))
       + PrefixCount(Tail(runs), k - Head(runs).n)

RECURSIVE PrefixBytes(_, _)
\* the bytes of the first k elements that are not symbolic links
PrefixBytes(runs, k) ==
  IF k <= 0 \/ runs = <<>> THEN 0
  ELSE (IF Head(runs).f.link THEN 0
        ELSE (IF k < Head(runs).n THEN k ELSE Head(runs).n) * Head(runs).f.size)
       + PrefixBytes(Tail(runs), k - Head(runs).n)

\* the files folded into the summary so far
Folded == {f \in PrefixFiles(available_files, i) : ~f.link /\ Readable(f)}

\* the report on disk, once written
Written == outFiles[opened[1]]

\* C5: a reader failure on any candidate ends the whole run and no partial
\* report is written: the output file is opened only after the extractor has
\* returned for every candidate that is not a symbolic link.
C5_NoPartialReport ==
  /\ opened # <<>> => \A f \in Candidates : ~f.link => (f \in read /\ Readable(f))
  /\ (\E f \in Candidates : ~f.link /\ ~Readable(f)) => (opened = <<>> /\ outFiles = startFiles)
  /\ (\E f \in read : ~Readable(f)) => (pc = "raised" /\ exitStatus = <<1>>)

\* the second file fails after the first was folded into the summary
C5_Witness ==
  /\ pc = "raised"
  /\ n_files >= 1
  /\ \E f \in read : ~Readable(f)
  /\ outFiles = startFiles

\* C6: a symbolic link is never handed to the extractor and adds nothing to
\* the file count or the total size; a directory of symbolic links only is
\* reported with a file count of 0.
C6_SymlinksSkipped ==
  /\ \A f \in read : ~f.link
  /\ pc \in {"scan", "done"} =>
       /\ n_files = PrefixCount(available_files, i)
       /\ tot_size = PrefixBytes(available_files, i)
       /\ read = {f \in PrefixFiles(available_files, i) : ~f.link}
  /\ (pc = "done" /\ \A f \in Candidates : f.link) => Written.n_files = 0

\* a directory whose only candidate is a symbolic link, reported
C6_Witness ==
  /\ pc = "done"
  /\ Candidates # {}
  /\ \A f \in Candidates : f.link
  /\ Written.n_files = 0
  /\ Written.telescopes = <<>>

\* a list of strings in strictly ascending order
Ascending(lst) == \A k \in 1..(Len(lst) - 1) : StrLess(lst[k], lst[k + 1])

\* C7: after any prefix of the scan each accumulator holds every value at most
\* once and holds exactly the values of the files processed so far; the
\* telescope line of the report lists each distinct telescope once, in
\* lexicographic order, whatever the order of enumeration was.
C7_DistinctValues ==
  /\ pc \in {"scan", "done", "raised"} =>
       /\ NoDup(exts) /\ Elems(exts) = {ParseData(f).ext : f \in Folded}
       /\ NoDup(telescopes) /\ Elems(telescopes) = {ParseData(f).telescope : f \in Folded}
       /\ NoDup(observers) /\ Elems(observers) = {ParseData(f).observer : f \in Folded}
       /\ NoDup(project_ids) /\ Elems(project_ids) = {ParseData(f).project_id : f \in Folded}
       /\ NoDup(sources) /\ Elems(sources) = {ParseData(f).source : f \in Folded}
       /\ NoDup(modes) /\ Elems(modes) = {ParseData(f).mode : f \in Folded}
       /\ NoDup(MJDs) /\ Elems(MJDs) = {ParseData(f).MJD : f \in Folded}
       /\ NoDup(center_freqs) /\ Elems(center_freqs) = {ParseData(f).center_freq : f \in Folded}
  /\ pc = "done" =>
       /\ Ascending(Written.telescopes)
       /\ Elems(Written.telescopes) =
            {ParseData(f).telescope : f \in {g \in Candidates : ~g.link}}
       /\ Len(Written.telescopes) =
            Cardinality({ParseData(f).telescope : f \in {g \in Candidates : ~g.link}})

\* two telescopes found in descending order and reported in ascending order
C7_Witness ==
  /\ pc = "done"
  /\ n_files = 2
  /\ telescopes = <<PKS, GBT>>
  /\ Written.telescopes = <<GBT, PKS>>

RECURSIVE CountOf(_, _)
\* the number of files a set of bag entries stands for
CountOf(S, t) ==
  IF S = {} THEN 0
  ELSE LET f == CHOOSE g \in S : TRUE IN CopiesIn(f, t) + CountOf(S \ {f}, t)

RECURSIVE BytesOf(_, _)
\* the bytes they hold together
BytesOf(S, t) ==
  IF S = {} THEN 0
  ELSE LET f == CHOOSE g \in S : TRUE IN CopiesIn(f, t) * f.size + BytesOf(S \ {f}, t)

\* C8: the reported file count is the number of candidates that are not
\* symbolic links, and the reported size is the sum of their sizes in bytes,
\* each file once, divided by 10^9 and rounded to two decimals.
C8_TotalSize ==
  pc = "done" =>
    LET files == {f \in BagToSet(tree) : f \in Candidates /\ ~f.link} IN
      /\ \A j, k \in 1..Len(available_files) :
           available_files[j].f = available_files[k].f => j = k
      /\ Written.n_files = CountOf(files, tree)
      /\ 2 * Abs(BytesOf(files, tree) - Written.size * 10000000) <= 10000000

\* a large directory with a symbolic link in it, reported
C8_Witness ==
  /\ pc = "done"
  /\ \E f \in Candidates : f.link
  /\ Written.n_files >= LargeScanThreshold - 1
  /\ Written.size >= 199

\* C10: every path handed to the extractor has, by the extractor's own
\* splitext, one of the four extensions, so exactly one of its two branches is
\* taken.
C10_OnlyKnownExtensionsReachExtractor ==
  \A f \in read :
    /\ SplitextExt(f) \in {ExtFits, ExtSf, ExtRf, ExtFil}
    /\ IsPsrfitsExt(SplitextExt(f)) # IsFilExt(SplitextExt(f))

\* a name with two dots was read while a hidden ".fits" lay beside it
C10_Witness ==
  /\ pc = "done"
  /\ FileR \in read
  /\ FileH \in BagToSet(tree)

\* C9: the centre frequency of a .fil file is fch1 + foff*(nchans-1)/2 with
\* the signed width foff, and the descending file and the ascending file with
\* the same band edges yield the same value (1500.0, -1.0, 100 gives 1450.5).
C9_CenterFrequencySymmetric ==
  (pc \in {"scan", "done"} /\ i = ListLen(available_files)) =>
    /\ Len(center_freqs) = 1
    /\ \A f \in read :
         /\ 2 * center_freqs[1] = 2 * f.hdr.fch1 + f.hdr.foff * (f.hdr.nchans - 1)
         /\ (f.hdr.fch1 = 3000 /\ f.hdr.foff = -2 /\ f.hdr.nchans = 100) =>
              (pc = "done" => Written.center_freqs = << <<"1", "4", "5", "0", ".", "5">> >>)

\* the worked example and its mirror, both read and reported
C9_Witness ==
  /\ pc = "done"
  /\ Cardinality(read) = 2
  /\ \E f \in read : f.hdr.fch1 = 3000 /\ f.hdr.foff = -2 /\ f.hdr.nchans = 100
  /\ \E f \in read : f.hdr.fch1 = 2802 /\ f.hdr.foff = 2 /\ f.hdr.nchans = 100
  /\ Written.center_freqs = << <<"1", "4", "5", "0", ".", "5">> >>


====
